---------------------------- MODULE Spec2Model ----------------------------
(***************************************************************************)
(* A model of src/app.py: the natural-disaster alert proxy.                *)
(*                                                                         *)
(* The state is the module-level dictionary alert_state (the cooldown      *)
(* store), the wall clock read by time.time(), and, for every request      *)
(* handler thread, the position of the handler and its local variables.    *)
(* A handler reads the clock, runs its adapters (each calls                *)
(* fetch_data_with_backoff, which may sleep), takes the emission decision  *)
(* and writes the two fields of its key.  The adapters touch no shared     *)
(* state, so a handler is split where it reads or writes alert_state.      *)
(*                                                                         *)
(* Python values: None is the empty tuple and the string s is <<s>>, so    *)
(* that None and a string compare unequal as they do in Python.            *)
(***************************************************************************)
EXTENDS Integers, Sequences, FiniteSets, TLC

VARIABLES
    clock,            \* time.time(), in seconds
    alert_state,      \* the dictionary alert_state
    pc,               \* per thread: where the handler stands
    route,            \* per thread: the route being served
    cmd,              \* per thread: request.args.get('cmd') of /command
    current_time,     \* per thread: the handler's local current_time
    fetches,          \* per thread: the log of each fetch the call made
    message,          \* per thread: the handler's local message
    event_id,         \* per thread: the handler's local event_id
    potential_alerts, \* per thread: get_all_alerts' list of candidates
    result,           \* per thread: the string the handler returned
    store0,           \* per thread: alert_state as it was when the call began
    prev,             \* the last cooldown-respecting call that finished
    last_return,      \* per key: clock when its last notification was returned
    used,             \* how much of each bound the run has consumed
    feeds,            \* what every feed of the call in progress answered
    frame,            \* the frame of a call of fetch_data_with_backoff
    history           \* the polls that have been answered, oldest first

vars == <<clock, alert_state, pc, route, cmd, current_time, fetches, message,
          event_id, potential_alerts, result, store0, prev, last_return, used,
          feeds, frame, history>>

-----------------------------------------------------------------------------
(* Bounds of the model. *)

\* requests served in one run
MaxCalls == 2
\* fetches of one run that meet a failing request
MaxFailing == 1
\* times the clock is advanced between requests
MaxTicks == 1
\* candidates of one /all_alerts call, among all routes
MaxCands == 1
\* candidates of all the calls of one run, when only /all_alerts is polled
MaxCandsAll == 3
\* the clock when the process starts
StartTime == 1000
\* requests of one call of fetch_data_with_backoff that is followed step by step
MaxRequests == 7
\* polls of a run in which a feed goes down and comes back
MaxPolls == 3
\* times the clock is advanced between the polls of such a run
MaxPauses == 2

(* Program constants. *)

COOLDOWN_SECONDS == 300
\* a fetcher that would try a sixth time
six_retries == 5 + 1

max_retries == 5

Threads == {1, 2}

-----------------------------------------------------------------------------
(* Python values. *)

None == <<>>
Str(s) == <<s>>
\* str(v) as an f-string renders it
PyStr(v) == IF v = None THEN "None" ELSE v[1]

RECURSIVE Pow2(_)
Pow2(n) == IF n = 0 THEN 1 ELSE 2 * Pow2(n - 1)


-----------------------------------------------------------------------------
(* The cooldown store. *)

CooldownRoutes == {"earthquake", "tsunami", "volcano", "flood",
                   "tropical_cyclone", "wildfire", "drought",
                   "severe_weather_general", "all_alerts"}

\* the alert_state field holding the last identity posted by a route
IdField(r) ==
    CASE r = "earthquake" -> "last_earthquake_id"
      [] r = "tsunami" -> "last_tsunami_id"
      [] r = "volcano" -> "last_volcano_event"
      [] r = "flood" -> "last_flood_id"
      [] r = "tropical_cyclone" -> "last_tropical_cyclone_id"
      [] r = "wildfire" -> "last_wildfire_id"
      [] r = "drought" -> "last_drought_id"
      [] r = "severe_weather_general" -> "last_general_severe_weather_id"
      [] r = "all_alerts" -> "last_all_alerts_id"

\* the alert_state field holding the time of the last post of a route
TimeField(r) ==
    CASE r = "earthquake" -> "last_earthquake_post_time"
      [] r = "tsunami" -> "last_tsunami_post_time"
      [] r = "volcano" -> "last_volcano_post_time"
      [] r = "flood" -> "last_flood_post_time"
      [] r = "tropical_cyclone" -> "last_tropical_cyclone_post_time"
      [] r = "wildfire" -> "last_wildfire_post_time"
      [] r = "drought" -> "last_drought_post_time"
      [] r = "severe_weather_general" -> "last_general_severe_weather_post_time"
      [] r = "all_alerts" -> "last_all_alerts_post_time"

IdFields == {IdField(r) : r \in CooldownRoutes}
TimeFields == {TimeField(r) : r \in CooldownRoutes}

\* alert_state as the module defines it
InitialAlertState ==
    [f \in IdFields \cup TimeFields |-> IF f \in IdFields THEN None ELSE 0]

-----------------------------------------------------------------------------
(* Helpers shared by the adapters. *)

\* an optional value: None, or Some(x)
Some(x) == <<x>>

\* what an adapter returns: (message, identity)
Record(m, i) == [message |-> m, id |-> i, raised |-> FALSE]
NoRecord == Record("", None)

\* the adapter did not return: an exception left it
Raised == [message |-> "", id |-> None, raised |-> TRUE]

\* d.get(key, default), a dictionary being a record of the keys it holds
Get(d, key, default) == IF key \in DOMAIN d THEN d[key] ELSE default

\* the decimal digit d
Digit(d) == SubSeq("0123456789", d + 1, d + 1)

\* f"{x:.1f}" of the number of tenths below 100
Fixed1(tenths) == Digit(tenths \div 10) \o "." \o Digit(tenths % 10)

\* Python's order on tuples of one or two numbers
TupleGt(a, b) ==
    \/ a[1] > b[1]
    \/ a[1] = b[1] /\ Len(a) > 1 /\ a[2] > b[2]

\* a sort that would put the later of two elements of equal keys first
SortedDescTiesLast(s, keys) ==
    LET n == Len(s)
        Before(j, i) ==
            TupleGt(keys[j], keys[i]) \/ (~TupleGt(keys[i], keys[j]) /\ j > i)
        Pos(i) == Cardinality({j \in 1..n : Before(j, i)}) + 1
    IN  [p \in 1..n |-> s[CHOOSE i \in 1..n : Pos(i) = p]]

\* Python's stable sort of s with reverse=True, keys[i] being the key of s[i]
SortedDesc(s, keys) ==
    LET n == Len(s)
        Before(j, i) ==
            TupleGt(keys[j], keys[i]) \/ (~TupleGt(keys[i], keys[j]) /\ j < i)
        Pos(i) == Cardinality({j \in 1..n : Before(j, i)}) + 1
    IN  [p \in 1..n |-> s[CHOOSE i \in 1..n : Pos(i) = p]]

-----------------------------------------------------------------------------
(* The adapters.  Each takes what fetch_data_with_backoff returned: None   *)
(* after five failed requests, else Some(payload).                         *)

\* data['features'][0]: the magnitude (None, or Some(tenths)), the place and
\* the id of the newest earthquake; the subscripts data['features'] and
\* ['id'] raise KeyError on a payload without the key, and the format
\* {magnitude:.1f} raises TypeError on None
_get_earthquake_alert_message(data) ==
    IF data = None THEN NoRecord
    ELSE IF "features" \notin DOMAIN data[1] THEN Raised
    ELSE IF data[1].features = <<>> THEN NoRecord
    ELSE LET f == data[1].features[1]
             magnitude == Get(f, "mag", None)
             place == Get(f, "place", "Unknown location")
         IN  IF "id" \notin DOMAIN f \/ magnitude = None THEN Raised
             ELSE Record("EARTHQUAKE ALERT! Magnitude " \o Fixed1(magnitude[1])
                             \o " - " \o place, f.id)

\* severity_order.get(severity, 0): a severity that is no key of the
\* dictionary, null included, has the order 0
severity_order(sev) ==
    CASE sev = Str("Extreme") -> 5
      [] sev = Str("Severe") -> 4
      [] sev = Str("Moderate") -> 3
      [] sev = Str("Minor") -> 2
      [] sev = Str("Unknown") -> 1
      [] OTHER -> 0

\* a truncation that would keep budget characters before the "..."
TruncatedAfterBudget(text, budget) ==
    IF Len(text) > budget THEN SubSeq(text, 1, budget) \o "..." ELSE text


\* text if it has at most budget characters, else its first budget - 3
\* characters and "...": description[:147] + "..."
Truncated(text, budget) ==
    IF Len(text) > budget THEN SubSeq(text, 1, budget - 3) \o "..." ELSE text

\* the defaults of latest_alert.get for the texts of the message
DefaultHeadline == "No Headline"
DefaultDescription == Str("No description provided.")
DefaultInstruction ==
    Str("No specific instructions. Follow local authority guidance.")

\* the f-string of the tsunami message
tsunami_message(headline, description, instruction) ==
    "TSUNAMI ALERT! " \o headline \o ". Details: " \o description
        \o ". Action: " \o instruction

\* the subscript data['features'] raises KeyError on a payload without the
\* key, and len() raises TypeError on a description or instruction that is
\* null
_get_tsunami_alert_message(data) ==
    IF data = None THEN NoRecord
    ELSE IF "features" \notin DOMAIN data[1] THEN Raised
    ELSE IF data[1].features = <<>> THEN NoRecord
    ELSE LET features == data[1].features
             keys == [i \in 1..Len(features) |->
                         <<severity_order(Get(features[i], "severity", Str("Unknown")))>>]
             active_alerts == SortedDesc(features, keys)
             latest_alert == active_alerts[1]
             headline == Get(latest_alert, "headline", DefaultHeadline)
             description == Get(latest_alert, "description", DefaultDescription)
             instruction == Get(latest_alert, "instruction", DefaultInstruction)
         IN  IF description = None \/ instruction = None THEN Raised
             ELSE Record(tsunami_message(headline, Truncated(description[1], 150),
                                         Truncated(instruction[1], 100)),
                         Get(latest_alert, "id", None))

\* an XML element is None when absent, else Some(its text), the text being
\* None for an empty element
ElemText(e, default) == IF e = None THEN default ELSE e[1]

\* an adapter that would not catch ET.ParseError
_get_volcano_alert_message_unguarded(xml_data) ==
    IF xml_data # None /\ ~xml_data[1].wellformed THEN Raised
    ELSE IF xml_data # None /\ xml_data[1].items # <<>>
    THEN LET item == xml_data[1].items[1]
             title == ElemText(item.title, Str("Unknown Volcano"))
         IN  Record("VOLCANO ALERT! Latest activity: " \o PyStr(title), title)
    ELSE NoRecord


_get_volcano_alert_message(xml_data) ==
    IF xml_data # None /\ xml_data[1].wellformed /\ xml_data[1].items # <<>>
    THEN LET item == xml_data[1].items[1]
             title == ElemText(item.title, Str("Unknown Volcano"))
         IN  Record("VOLCANO ALERT! Latest activity: " \o PyStr(title), title)
    ELSE NoRecord

\* level_priority.get(x.get('alert_level', 'Green'), 0)
level_priority(level) ==
    CASE level = Str("Red") -> 3
      [] level = Str("Orange") -> 2
      [] level = Str("Green") -> 1
      [] OTHER -> 0

\* the list of alert dictionaries, filtered and sorted
_get_gdacs_alerts_data(xml_data, event_type_filter, alert_level_filter) ==
    IF xml_data # None /\ xml_data[1].wellformed
    THEN LET Keep(item) ==
                 /\ (event_type_filter = None \/ item.eventtype = event_type_filter)
                 /\ (alert_level_filter = None \/ item.alertlevel = alert_level_filter)
             Alert(item) ==
                 LET title == ElemText(item.title, Str("Unknown Event"))
                 IN  [id |-> ElemText(item.eventid, title),
                      title |-> title,
                      event_type |-> item.eventtype,
                      alert_level |-> item.alertlevel,
                      severity_value |-> item.severity]
             kept == SelectSeq(xml_data[1].items, Keep)
             alerts == [i \in 1..Len(kept) |-> Alert(kept[i])]
             keys == [i \in 1..Len(alerts) |->
                         <<level_priority(alerts[i].alert_level),
                           alerts[i].severity_value>>]
         IN  SortedDesc(alerts, keys)
    ELSE <<>>

_get_gdacs_alert_message(xml_data, event_type, message_prefix, alert_level) ==
    LET alerts == _get_gdacs_alerts_data(xml_data, event_type, alert_level)
    IN  IF alerts # <<>>
        THEN LET latest_alert == alerts[1]
             IN  Record(message_prefix \o " " \o PyStr(latest_alert.alert_level)
                            \o " alert for " \o PyStr(latest_alert.title),
                        latest_alert.id)
        ELSE NoRecord

_get_wildfire_alert_message(data) ==
    IF data # None /\ Get(data[1], "events", <<>>) # <<>>
    THEN LET latest_wildfire == data[1].events[1]
         IN  Record("WILDFIRE ALERT! Active wildfire: "
                        \o Get(latest_wildfire, "title", "Unknown Wildfire"),
                    Get(latest_wildfire, "id", None))
    ELSE NoRecord

\* all_gdacs_alerts is the Orange list followed by the Red list
_get_general_severe_weather_alert_message(orange_alerts, red_alerts) ==
    LET all_gdacs_alerts == orange_alerts \o red_alerts
        Keep(alert) ==
            alert.event_type \notin
                {Str("EQ"), Str("FL"), Str("TC"), Str("VO"), Str("WF"), Str("DR")}
        filtered_alerts == SelectSeq(all_gdacs_alerts, Keep)
    IN  IF filtered_alerts # <<>>
        THEN LET latest_alert == filtered_alerts[1]
             IN  Record("SEVERE WEATHER ALERT! " \o PyStr(latest_alert.alert_level)
                            \o " alert for " \o PyStr(latest_alert.event_type)
                            \o ": " \o PyStr(latest_alert.title),
                        Str(PyStr(latest_alert.event_type) \o "-"
                            \o PyStr(latest_alert.alert_level) \o "-"
                            \o PyStr(latest_alert.id)))
        ELSE NoRecord

-----------------------------------------------------------------------------
(* What the upstream sources may answer to a successful request. *)

IdValues == {None, Str("a"), Str("b")}

\* USGS, limit=1: no feature, or one, which carries the id the adapter
\* subscripts
UsgsPayloads ==
    {[features |-> <<>>]} \cup
    {[features |-> <<[id |-> i, place |-> "p", mag |-> Some(45)]>>] :
        i \in IdValues \ {None}}

NwsAlert(i, sev) == [id |-> i, severity |-> sev, headline |-> "h-" \o PyStr(i)]

\* NWS: no active alert, one, or two of different severities
NwsPayloads ==
    {[features |-> <<>>]} \cup
    {[features |-> <<NwsAlert(i, Str("Severe"))>>] : i \in IdValues} \cup
    {[features |-> <<NwsAlert(Str("a"), s1), NwsAlert(Str("b"), s2)>>] :
        s1 \in {Str("Minor"), Str("Extreme")}, s2 \in {None, Str("Extreme")}}

\* GVP weekly report: not XML, no item, or a first item with or without title
GvpPayloads ==
    {[wellformed |-> FALSE, items |-> <<>>], [wellformed |-> TRUE, items |-> <<>>]} \cup
    {[wellformed |-> TRUE, items |-> <<[title |-> t]>>] :
        t \in {None, Some(None), Some(Str("a")), Some(Str("b"))}}

\* EONET, limit=1: no event, or one
EonetPayloads ==
    {[events |-> <<>>]} \cup
    {[events |-> <<[id |-> i, title |-> "w"]>>] : i \in IdValues}

GdacsItem(ty, lv, eid, sev) ==
    [eventtype |-> Str(ty), alertlevel |-> Str(lv), eventid |-> eid,
     title |-> Some(Str("t-" \o ty)), severity |-> sev]

GdacsTypes == {"FL", "TC", "DR", "TS"}

\* GDACS: not XML, no item, one item, or two items of one event type
GdacsPayloads ==
    {[wellformed |-> FALSE, items |-> <<>>], [wellformed |-> TRUE, items |-> <<>>]} \cup
    {[wellformed |-> TRUE, items |-> <<GdacsItem(ty, lv, eid, 1)>>] :
        ty \in GdacsTypes, lv \in {"Red", "Orange", "Green"},
        eid \in {None, Some(None), Some(Str("a")), Some(Str("b"))}} \cup
    {[wellformed |-> TRUE,
      items |-> <<GdacsItem(ty, l1, Some(Str("a")), 1),
                  GdacsItem(ty, l2, Some(Str("b")), s2)>>] :
        ty \in GdacsTypes, l1 \in {"Red", "Orange"}, l2 \in {"Red", "Orange"},
        s2 \in {1, 2}}


\* the payloads the source asked by an adapter may answer
Payloads(adapter) ==
    CASE adapter = "earthquake" -> UsgsPayloads
      [] adapter = "tsunami" -> NwsPayloads
      [] adapter = "volcano" -> GvpPayloads
      [] adapter = "wildfire" -> EonetPayloads
      [] OTHER -> GdacsPayloads

-----------------------------------------------------------------------------
(* fetch_data_with_backoff.  Its run is decided by what each request meets: *)
(* responses[n] is None when the n-th request raises (a transport error or *)
(* a non-2xx status) and Some(payload) when it succeeds.  The log lists,   *)
(* in order, 0 for a request made and n > 0 for a sleep of n seconds.      *)

\* sleep_time = 2 ** retries
sleep_time(retries) == Pow2(retries)

Requests(log) == Len(SelectSeq(log, LAMBDA e : e = 0))

RECURSIVE backoff_loop(_, _, _)
\* the while loop, entered with the local retries and the log so far
backoff_loop(responses, retries, log) ==
    IF retries < max_retries
    THEN LET response == responses[Requests(log) + 1]
         IN  IF response # None
             THEN [data |-> response, log |-> log \o <<0>>]
             ELSE backoff_loop(responses, retries + 1,
                               log \o <<0, sleep_time(retries + 1)>>)
    ELSE [data |-> None, log |-> log]

fetch_data_with_backoff(responses) == backoff_loop(responses, 0, <<>>)

\* the number of leading requests that fail
FailCounts == {0, 1, max_retries}

\* the source fails k requests and then answers payload
Responses(k, payload) ==
    [n \in 1..(max_retries + 1) |-> IF n <= k THEN None ELSE Some(payload)]

\* what the fetches of an adapter may return, with their logs
FetchResults(adapter) ==
    {fetch_data_with_backoff(Responses(k, payload)) :
        k \in FailCounts, payload \in Payloads(adapter)}

-----------------------------------------------------------------------------
(* The adapter calls a handler performs, in order. *)

Call(adapter, event_type, alert_level, prefix, type, priority) ==
    [adapter |-> adapter, event_type |-> event_type, alert_level |-> alert_level,
     prefix |-> prefix, type |-> type, priority |-> priority]

Simple(adapter, type, priority) == Call(adapter, "", "", "", type, priority)
Gdacs(event_type, alert_level, prefix, type, priority) ==
    Call("gdacs", event_type, alert_level, prefix, type, priority)

FLOOD == "FLOOD ALERT!"
CYCLONE == "TROPICAL CYCLONE ALERT!"
DROUGHT == "DROUGHT ALERT!"

\* get_all_alerts: the adapters in the order it calls them, with the type
\* and the priority it gives each candidate
AllAlertsPlan ==
    << Simple("tsunami", "tsunami", 10),
       Simple("earthquake", "earthquake", 9),
       Gdacs("TC", "Red", CYCLONE, "tropical_cyclone_red", 8),
       Gdacs("TC", "Orange", CYCLONE, "tropical_cyclone_orange", 7),
       Simple("volcano", "volcano", 6),
       Gdacs("FL", "Red", FLOOD, "flood_red", 5),
       Gdacs("FL", "Orange", FLOOD, "flood_orange", 4),
       Simple("wildfire", "wildfire", 3),
       Simple("general", "general_severe_weather", 2),
       Gdacs("DR", "Orange", DROUGHT, "drought", 1) >>

\* the cooldown-respecting routes
RoutePlan(r) ==
    CASE r = "earthquake" -> << Simple("earthquake", "", 0) >>
      [] r = "tsunami" -> << Simple("tsunami", "", 0) >>
      [] r = "volcano" -> << Simple("volcano", "", 0) >>
      [] r = "flood" -> << Gdacs("FL", "Orange", FLOOD, "", 0) >>
      [] r = "tropical_cyclone" -> << Gdacs("TC", "Orange", CYCLONE, "", 0) >>
      [] r = "wildfire" -> << Simple("wildfire", "", 0) >>
      [] r = "drought" -> << Gdacs("DR", "Orange", DROUGHT, "", 0) >>
      [] r = "severe_weather_general" -> << Simple("general", "", 0) >>
      [] r = "all_alerts" -> AllAlertsPlan

Commands == {"earthquake", "tsunami", "volcano", "flood", "cyclone",
             "tropicalcyclone", "wildfire", "drought", "weather",
             "severeweather", "help"}

\* handle_command: the adapter each command calls; none for an unknown one
CommandPlan(c) ==
    CASE c = "earthquake" -> << Simple("earthquake", "", 0) >>
      [] c = "tsunami" -> << Simple("tsunami", "", 0) >>
      [] c = "volcano" -> << Simple("volcano", "", 0) >>
      [] c = "flood" -> << Gdacs("FL", "Orange", FLOOD, "", 0) >>
      [] c \in {"cyclone", "tropicalcyclone"} -> << Gdacs("TC", "Orange", CYCLONE, "", 0) >>
      [] c = "wildfire" -> << Simple("wildfire", "", 0) >>
      [] c = "drought" -> << Gdacs("DR", "Orange", DROUGHT, "", 0) >>
      [] c \in {"weather", "severeweather"} -> << Simple("general", "", 0) >>
      [] OTHER -> <<>>

\* handle_command: what it answers when the adapter has no message
Placeholder(c) ==
    CASE c = "earthquake" -> "No recent significant earthquake found."
      [] c = "tsunami" -> "No active tsunami warnings/advisories found."
      [] c = "volcano" -> "No recent significant volcanic activity found."
      [] c = "flood" -> "No recent significant global flood alerts found."
      [] c \in {"cyclone", "tropicalcyclone"} ->
            "No active global tropical cyclone alerts found."
      [] c = "wildfire" -> "No active global wildfire alerts found."
      [] c = "drought" -> "No recent significant global drought alerts found."
      [] c \in {"weather", "severeweather"} ->
            "No recent general severe weather alerts found."
      [] OTHER -> "Unknown command. Try !earthquake, !tsunami, !volcano, !flood, "
                  \o "!cyclone, !wildfire, !drought, or !weather."


-----------------------------------------------------------------------------
(* One adapter call: the fetches it makes and the record it returns. *)

\* the record an adapter with one fetch makes of the data fetched
AdapterRecord(call, data) ==
    CASE call.adapter = "earthquake" -> _get_earthquake_alert_message(data)
      [] call.adapter = "tsunami" -> _get_tsunami_alert_message(data)
      [] call.adapter = "volcano" -> _get_volcano_alert_message(data)
      [] call.adapter = "wildfire" -> _get_wildfire_alert_message(data)
      [] call.adapter = "gdacs" ->
            _get_gdacs_alert_message(data, Str(call.event_type), call.prefix,
                                     Str(call.alert_level))

\* every way an adapter call may go: its record and the logs of its fetches;
\* the general adapter fetches the feed twice, for Orange and for Red
CallResults(call) ==
    IF call.adapter = "general"
    THEN {[rec |-> _get_general_severe_weather_alert_message(
                       _get_gdacs_alerts_data(f1.data, None, Str("Orange")),
                       _get_gdacs_alerts_data(f2.data, None, Str("Red"))),
           logs |-> <<f1.log, f2.log>>] :
             f1 \in FetchResults("gdacs"), f2 \in FetchResults("gdacs")}
    ELSE {[rec |-> AdapterRecord(call, f.data), logs |-> <<f.log>>] :
             f \in FetchResults(call.adapter)}

AllCalls ==
    {AllAlertsPlan[i] : i \in 1..Len(AllAlertsPlan)}
    \cup UNION {{RoutePlan(r)[1]} : r \in CooldownRoutes \ {"all_alerts"}}

CallResultsOf == [call \in AllCalls |-> CallResults(call)]

\* the fetches of an adapter call that met a failing request
Failing(logs) == Len(SelectSeq(logs, LAMBDA log : log # <<0>>))

Min(a, b) == IF a < b THEN a ELSE b

RECURSIVE Runs(_, _, _, _)
\* every way the adapter calls plan[i..] may go, with at most c of them
\* returning a message and at most f fetches meeting a failing request
Runs(plan, i, c, f) ==
    IF i > Len(plan) THEN {<<>>}
    ELSE UNION
        {LET here == {x \in CallResultsOf[plan[i]] :
                          /\ (IF x.rec.message # "" THEN 1 ELSE 0) = dc
                          /\ Failing(x.logs) = df}
             rest == Runs(plan, i + 1, c - dc, f - df)
         IN  {<<x>> \o t : x \in here, t \in rest} :
            dc \in 0..Min(1, c), df \in 0..Min(2, f)}

\* the runs of each route when every route is polled
RouteRuns ==
    [r \in CooldownRoutes |->
        Runs(RoutePlan(r), 1, IF r = "all_alerts" THEN MaxCands ELSE 1, MaxFailing)]

\* the runs of each command
CommandRuns == [c \in Commands |-> Runs(CommandPlan(c), 1, 1, MaxFailing)]

\* the runs of each per-source route when no request fails
SourceRuns ==
    [r \in CooldownRoutes \ {"all_alerts"} |-> Runs(RoutePlan(r), 1, 1, 0)]

RECURSIVE Sum(_)
Sum(s) == IF s = <<>> THEN 0 ELSE Head(s) + Sum(Tail(s))

RECURSIVE Concat(_)
Concat(ss) == IF ss = <<>> THEN <<>> ELSE Head(ss) \o Concat(Tail(ss))

\* the logs of the fetches of a run, in order
RunLogs(run) == Concat([i \in 1..Len(run) |-> run[i].logs])

\* the seconds a run sleeps
Elapsed(run) == Sum(Concat(RunLogs(run)))

RunFailing(run) == Failing(RunLogs(run))

\* the adapter calls of a run that return a message
Cands(run) == Len(SelectSeq(run, LAMBDA x : x.rec.message # ""))

\* the runs of /all_alerts when it alone is polled and no request fails,
\* by the number of candidates they make
AllAlertsRuns ==
    LET runs == Runs(AllAlertsPlan, 1, MaxCandsAll, 0)
    IN  [n \in 0..MaxCandsAll |-> {run \in runs : Cands(run) = n}]

RECURSIVE Candidates(_, _, _)
\* potential_alerts after the adapter calls plan[i..]: if msg: append(...)
Candidates(plan, run, i) ==
    IF i > Len(run) THEN <<>>
    ELSE (IF run[i].rec.message # ""
          THEN <<[type |-> plan[i].type, message |-> run[i].rec.message,
                  id |-> run[i].rec.id, priority |-> plan[i].priority]>>
          ELSE <<>>) \o Candidates(plan, run, i + 1)

-----------------------------------------------------------------------------
(* The initial state: the module has been imported, no request is served. *)

NoCall == [route |-> "", message |-> "", id |-> None, result |-> "", at |-> 0]

\* no call of fetch_data_with_backoff is being followed step by step
NoFrame == [at |-> "none", parser |-> "", retries |-> 0, log |-> <<>>,
            value |-> None]

Init ==
    /\ clock = StartTime
    /\ alert_state = InitialAlertState
    /\ pc = [h \in Threads |-> "idle"]
    /\ route = [h \in Threads |-> ""]
    /\ cmd = [h \in Threads |-> ""]
    /\ current_time = [h \in Threads |-> 0]
    /\ fetches = [h \in Threads |-> <<>>]
    /\ message = [h \in Threads |-> ""]
    /\ event_id = [h \in Threads |-> None]
    /\ potential_alerts = [h \in Threads |-> <<>>]
    /\ result = [h \in Threads |-> ""]
    /\ store0 = [h \in Threads |-> InitialAlertState]
    /\ prev = NoCall
    /\ last_return = [f \in IdFields |-> 0]
    /\ used = [calls |-> 0, failing |-> 0, ticks |-> 0, cands |-> 0]
    /\ feeds = <<>>
    /\ frame = NoFrame
    /\ history = <<>>

-----------------------------------------------------------------------------
(* Time passes between two requests: as long as the cooldown window, or   *)
(* one second longer.                                                      *)

TickSteps == {COOLDOWN_SECONDS, COOLDOWN_SECONDS + 1}

Tick ==
    /\ \A h \in Threads : pc[h] = "idle"
    /\ used.calls > 0
    /\ used.ticks < MaxTicks
    /\ \E d \in TickSteps : clock' = clock + d
    /\ used' = [used EXCEPT !.ticks = @ + 1]
    /\ UNCHANGED <<alert_state, pc, route, cmd, current_time, fetches, message,
                   event_id, potential_alerts, result, store0, prev,
                   last_return,
                   feeds, frame, history>>

-----------------------------------------------------------------------------
(* A request arrives.  The handler reads the clock and runs its adapters,  *)
(* whose fetches sleep after every failed request.  An exception that      *)
(* leaves an adapter leaves the handler too, which catches none.           *)

Begin(h, r, c, run) ==
    /\ used.failing + RunFailing(run) <= MaxFailing
    /\ used' = [used EXCEPT !.calls = @ + 1, !.failing = @ + RunFailing(run),
                            !.cands = @ + Cands(run)]
    /\ route' = [route EXCEPT ![h] = r]
    /\ cmd' = [cmd EXCEPT ![h] = c]
    /\ current_time' = [current_time EXCEPT ![h] = IF r = "command" THEN 0 ELSE clock]
    /\ store0' = [store0 EXCEPT ![h] = alert_state]
    /\ clock' = clock + Elapsed(run)
    /\ fetches' = [fetches EXCEPT ![h] = RunLogs(run)]
    /\ message' = [message EXCEPT ![h] = IF run = <<>> THEN "" ELSE run[Len(run)].rec.message]
    /\ event_id' = [event_id EXCEPT ![h] = IF run = <<>> THEN None ELSE run[Len(run)].rec.id]
    /\ potential_alerts' = [potential_alerts EXCEPT
                               ![h] = IF r = "all_alerts"
                                      THEN Candidates(AllAlertsPlan, run, 1)
                                      ELSE <<>>]
    /\ pc' = [pc EXCEPT ![h] = IF run # <<>> /\ run[Len(run)].rec.raised
                               THEN "raised" ELSE "decide"]
    /\ UNCHANGED <<alert_state, result, prev, last_return,
                   frame, history>>

\* the thread is free and the run may serve one more request
Free(h) == pc[h] = "idle" /\ used.calls < MaxCalls

\* a scheduled poll of one of the cooldown-respecting routes
StartRoute(h) ==
    /\ Free(h)
    /\ \E r \in CooldownRoutes : \E run \in RouteRuns[r] : Begin(h, r, "", run)
    /\ UNCHANGED feeds

\* an on-demand chat command
StartCommand(h) ==
    /\ Free(h)
    /\ \E c \in Commands : \E run \in CommandRuns[c] : Begin(h, "command", c, run)
    /\ UNCHANGED feeds

\* a scheduled poll of a per-source route
StartSource(h) ==
    /\ Free(h)
    /\ \E r \in CooldownRoutes \ {"all_alerts"} :
          \E run \in SourceRuns[r] : Begin(h, r, "", run)
    /\ UNCHANGED feeds

\* a scheduled poll of /all_alerts
StartAllAlerts(h) ==
    /\ Free(h)
    /\ \E n \in 0..(MaxCandsAll - used.cands) :
          \E run \in AllAlertsRuns[n] : Begin(h, "all_alerts", "", run)
    /\ UNCHANGED feeds

-----------------------------------------------------------------------------
(* The emission decision and the writes of the store. *)

\* a condition that would look at the cooldown window alone
EmittableOnCooldown(msg, id, last_id, now, last_post_time) ==
    /\ msg # ""
    /\ (now - last_post_time) > COOLDOWN_SECONDS

\* the condition of the if statement of every cooldown-respecting route
Emittable(msg, id, last_id, now, last_post_time) ==
    /\ msg # ""
    /\ id # last_id
    /\ (now - last_post_time) > COOLDOWN_SECONDS

\* a sort that would put the lowest priority first
SortedByPriorityAscending(alerts) ==
    SortedDesc(alerts, [i \in 1..Len(alerts) |-> <<0 - alerts[i].priority>>])

\* potential_alerts.sort(key=lambda x: x['priority'], reverse=True)
SortedByPriority(alerts) ==
    SortedDesc(alerts, [i \in 1..Len(alerts) |-> <<alerts[i].priority>>])

\* f"{top_alert['type']}-{top_alert['id']}"
combined_alert_id(top_alert) == Str(top_alert.type \o "-" \o PyStr(top_alert.id))

\* a per-source route tests the record its adapter returned
CheckSource(h) ==
    /\ pc[h] = "decide"
    /\ route[h] \in CooldownRoutes \ {"all_alerts"}
    /\ IF Emittable(message[h], event_id[h], alert_state[IdField(route[h])],
                    current_time[h], alert_state[TimeField(route[h])])
       THEN pc' = [pc EXCEPT ![h] = "set_id"] /\ UNCHANGED result
       ELSE pc' = [pc EXCEPT ![h] = "done"] /\ result' = [result EXCEPT ![h] = ""]
    /\ UNCHANGED <<clock, alert_state, route, cmd, current_time, fetches,
                   message, event_id, potential_alerts, store0, prev,
                   last_return, used,
                   feeds, frame, history>>

\* get_all_alerts sorts its candidates and tests the first; from here on
\* message and event_id stand for top_alert['message'] and combined_alert_id,
\* and potential_alerts keeps the candidates in the order they were appended
CheckAll(h) ==
    /\ pc[h] = "decide"
    /\ route[h] = "all_alerts"
    /\ LET sorted == SortedByPriority(potential_alerts[h])
       IN  /\ IF sorted # <<>>
              THEN LET top_alert == sorted[1]
                   IN  /\ message' = [message EXCEPT ![h] = top_alert.message]
                       /\ event_id' = [event_id EXCEPT ![h] = combined_alert_id(top_alert)]
                       /\ IF Emittable(top_alert.message, combined_alert_id(top_alert),
                                       alert_state["last_all_alerts_id"], current_time[h],
                                       alert_state["last_all_alerts_post_time"])
                          THEN pc' = [pc EXCEPT ![h] = "set_id"] /\ UNCHANGED result
                          ELSE /\ pc' = [pc EXCEPT ![h] = "done"]
                               /\ result' = [result EXCEPT ![h] = ""]
              ELSE /\ pc' = [pc EXCEPT ![h] = "done"]
                   /\ result' = [result EXCEPT ![h] = ""]
                   /\ message' = [message EXCEPT ![h] = ""]
                   /\ event_id' = [event_id EXCEPT ![h] = None]
    /\ UNCHANGED <<clock, alert_state, route, cmd, current_time, fetches,
                   potential_alerts, store0, prev, last_return, used,
                   feeds, frame, history>>

\* a write that would keep the first identity the key has emitted
SetIdOnce(h) ==
    /\ pc[h] = "set_id"
    /\ alert_state' = IF alert_state[IdField(route[h])] = None
                      THEN [alert_state EXCEPT ![IdField(route[h])] = event_id[h]]
                      ELSE alert_state
    /\ pc' = [pc EXCEPT ![h] = "set_time"]
    /\ UNCHANGED <<clock, route, cmd, current_time, fetches, message, event_id,
                   potential_alerts, result, store0, prev, last_return, used,
                   feeds, frame, history>>


\* alert_state["last_..._id"] = event_id
SetId(h) ==
    /\ pc[h] = "set_id"
    /\ alert_state' = [alert_state EXCEPT ![IdField(route[h])] = event_id[h]]
    /\ pc' = [pc EXCEPT ![h] = "set_time"]
    /\ UNCHANGED <<clock, route, cmd, current_time, fetches, message, event_id,
                   potential_alerts, result, store0, prev, last_return, used,
                   feeds, frame, history>>

\* a write of the time that would also restart the window of /all_alerts
SetTimeOfEveryView(h) ==
    /\ pc[h] = "set_time"
    /\ alert_state' = [alert_state EXCEPT ![TimeField(route[h])] = current_time[h],
                                          !["last_all_alerts_post_time"] = current_time[h]]
    /\ result' = [result EXCEPT ![h] = message[h]]
    /\ last_return' = [last_return EXCEPT ![IdField(route[h])] = clock]
    /\ pc' = [pc EXCEPT ![h] = "done"]
    /\ UNCHANGED <<clock, route, cmd, current_time, fetches, message, event_id,
                   potential_alerts, store0, prev, used,
                   feeds, frame, history>>

\* alert_state["last_..._post_time"] = current_time; return message
SetTime(h) ==
    /\ pc[h] = "set_time"
    /\ alert_state' = [alert_state EXCEPT ![TimeField(route[h])] = current_time[h]]
    /\ result' = [result EXCEPT ![h] = message[h]]
    /\ last_return' = [last_return EXCEPT ![IdField(route[h])] = clock]
    /\ pc' = [pc EXCEPT ![h] = "done"]
    /\ UNCHANGED <<clock, route, cmd, current_time, fetches, message, event_id,
                   potential_alerts, store0, prev, used,
                   feeds, frame, history>>

\* a command that would enter what it answers in the store
ReplyAndRecord(h) ==
    /\ pc[h] = "decide"
    /\ route[h] = "command"
    /\ result' = [result EXCEPT ![h] = IF message[h] # "" THEN message[h]
                                       ELSE Placeholder(cmd[h])]
    /\ alert_state' = [alert_state EXCEPT !["last_all_alerts_id"] = Str(result'[h]),
                                          !["last_all_alerts_post_time"] = clock]
    /\ pc' = [pc EXCEPT ![h] = "done"]
    /\ UNCHANGED <<clock, route, cmd, current_time, fetches, message, event_id,
                   potential_alerts, store0, prev, last_return, used,
                   feeds, frame, history>>

\* handle_command: return message if message else the placeholder
Reply(h) ==
    /\ pc[h] = "decide"
    /\ route[h] = "command"
    /\ result' = [result EXCEPT ![h] = IF message[h] # "" THEN message[h]
                                       ELSE Placeholder(cmd[h])]
    /\ pc' = [pc EXCEPT ![h] = "done"]
    /\ UNCHANGED <<clock, alert_state, route, cmd, current_time, fetches,
                   message, event_id, potential_alerts, store0, prev,
                   last_return, used,
                   feeds, frame, history>>

\* the response has been sent: the thread is free for the next request;
\* prev keeps what the last scheduled poll saw and answered
Release(h) ==
    /\ pc[h] = "done"
    /\ prev' = IF route[h] = "command" THEN prev
                ELSE [route |-> route[h], message |-> message[h],
                      id |-> event_id[h], result |-> result[h], at |-> clock]
    /\ pc' = [pc EXCEPT ![h] = "idle"]
    /\ route' = [route EXCEPT ![h] = ""]
    /\ cmd' = [cmd EXCEPT ![h] = ""]
    /\ current_time' = [current_time EXCEPT ![h] = 0]
    /\ fetches' = [fetches EXCEPT ![h] = <<>>]
    /\ message' = [message EXCEPT ![h] = ""]
    /\ event_id' = [event_id EXCEPT ![h] = None]
    /\ potential_alerts' = [potential_alerts EXCEPT ![h] = <<>>]
    /\ result' = [result EXCEPT ![h] = ""]
    /\ store0' = [store0 EXCEPT ![h] = InitialAlertState]
    /\ UNCHANGED <<clock, alert_state, last_return, used,
                   feeds, frame>>

Finish(h) == Release(h) /\ UNCHANGED history

\* an exception left the handler: the server answers 500 Internal Server
\* Error, and the thread is free for the next request
ServerError(h) ==
    /\ pc[h] = "raised"
    /\ pc' = [pc EXCEPT ![h] = "idle"]
    /\ route' = [route EXCEPT ![h] = ""]
    /\ cmd' = [cmd EXCEPT ![h] = ""]
    /\ current_time' = [current_time EXCEPT ![h] = 0]
    /\ fetches' = [fetches EXCEPT ![h] = <<>>]
    /\ message' = [message EXCEPT ![h] = ""]
    /\ event_id' = [event_id EXCEPT ![h] = None]
    /\ potential_alerts' = [potential_alerts EXCEPT ![h] = <<>>]
    /\ store0' = [store0 EXCEPT ![h] = InitialAlertState]
    /\ UNCHANGED <<clock, alert_state, result, prev, last_return, used,
                   feeds, frame, history>>

-----------------------------------------------------------------------------
(* The specifications. *)

\* every route and every command, served one request after the other
Next ==
    \/ Tick
    \/ StartRoute(1)
    \/ StartCommand(1)
    \/ CheckSource(1)
    \/ CheckAll(1)
    \/ SetId(1)
    \/ SetTime(1)
    \/ Reply(1)
    \/ Finish(1)

Spec == Init /\ [][Next]_vars

\* /all_alerts polled again and again, its sources answering at once
NextAll ==
    \/ Tick
    \/ StartAllAlerts(1)
    \/ CheckAll(1)
    \/ SetId(1)
    \/ SetTime(1)
    \/ Finish(1)

SpecAll == Init /\ [][NextAll]_vars

\* two threads of the server poll the per-source routes at the same time
NextConc ==
    \/ Tick
    \/ \E h \in Threads : StartSource(h)
    \/ \E h \in Threads : CheckSource(h)
    \/ \E h \in Threads : SetId(h)
    \/ \E h \in Threads : SetTime(h)
    \/ \E h \in Threads : Finish(h)

SpecConc == Init /\ [][NextConc]_vars

-----------------------------------------------------------------------------
(* The properties.  A request that has returned is at "done": message and  *)
(* event_id are the record it tested, store0 the store it found, result    *)
(* what it answered.                                                       *)

\* the scheduled polls that have returned
Polled(h) == pc[h] = "done" /\ route[h] \in CooldownRoutes

\* the record differs from the entry the call found, and the window is over
New(h) ==
    /\ event_id[h] # store0[h][IdField(route[h])]
    /\ current_time[h] - store0[h][TimeField(route[h])] > 300

\* C1: a cooldown-respecting call returns a notification, the text of its
\* record, if and only if its adapter produced a record, the identity of the
\* record differs from the last identity of the key and more than 300 seconds
\* have passed since the last emission; otherwise it returns the empty string.
C1_EmitsIffNewAndCooledDown ==
    \A h \in Threads :
        Polled(h) =>
            /\ (result[h] # "") <=> (message[h] # "" /\ New(h))
            /\ result[h] \in {"", message[h]}

\* a changed identity alone, inside the window, has been suppressed
C1_Witness ==
    /\ Polled(1)
    /\ message[1] # ""
    /\ store0[1][IdField(route[1])] # None
    /\ event_id[1] # store0[1][IdField(route[1])]
    /\ current_time[1] - store0[1][TimeField(route[1])] <= 300
    /\ result[1] = ""

\* the threads that have passed the check of a route with an identity
Emitting(h) == pc[h] \in {"set_id", "set_time"} \/ (pc[h] = "done" /\ result[h] # "")

\* C2: of two handlers that run at the same time on one key and see the same
\* new identity, at most one passes the check and emits.
C2_AtMostOneEmits ==
    \A h1, h2 \in Threads :
        (/\ h1 # h2
         /\ route[h1] = route[h2]
         /\ route[h1] \in CooldownRoutes
         /\ event_id[h1] = event_id[h2]
         /\ Emitting(h1)) => ~Emitting(h2)

\* C3: two notifications returned through one key are more than 300 seconds
\* apart, the time the fetches of a call take included.
C3_NotificationsApart ==
    [][\A f \in IdFields :
          (last_return[f] # 0 /\ last_return'[f] # last_return[f]) =>
              last_return'[f] - last_return[f] > 300]_vars

\* the call follows at once a call of the same route that saw the same record
Repeated(h) ==
    /\ prev.route = route[h]
    /\ prev.at = current_time[h]
    /\ prev.message = message[h]
    /\ prev.id = event_id[h]

\* C4: on a key that never emitted, a call whose adapter yields a record
\* returns the text of the record; and a call that follows at once a call of
\* the same route with the same upstream data returns the empty string.
C4_FirstEmitsSecondEmpty ==
    \A h \in Threads :
        Polled(h) =>
            /\ (/\ store0[h][IdField(route[h])] = None
                /\ store0[h][TimeField(route[h])] = 0
                /\ message[h] # "") => result[h] = message[h]
            /\ Repeated(h) => result[h] = ""

\* the candidates of a call in the order get_all_alerts tests them
Ranked(h) == SortedByPriority(potential_alerts[h])

\* the candidates whose namespaced identity differs from the aggregate entry
NewCandidates(h) ==
    SelectSeq(Ranked(h),
              LAMBDA a : combined_alert_id(a) # store0[h]["last_all_alerts_id"])

\* C5: /all_alerts returns the candidate of the highest priority among those
\* that are new under the aggregate entry: once the window is over and some
\* candidate has a namespaced identity other than the last one, it returns a
\* notification; it returns the empty string only if no candidate passes.
C5_HighestNewCandidate ==
    \A h \in Threads :
        (Polled(h) /\ route[h] = "all_alerts") =>
            IF /\ NewCandidates(h) # <<>>
               /\ current_time[h] - store0[h]["last_all_alerts_post_time"] > 300
            THEN result[h] = NewCandidates(h)[1].message
            ELSE result[h] = ""

\* the first candidate, as appended, among those of the highest priority
Highest(alerts) ==
    LET top == CHOOSE p \in {alerts[i].priority : i \in 1..Len(alerts)} :
                   \A i \in 1..Len(alerts) : alerts[i].priority <= p
        first == CHOOSE i \in 1..Len(alerts) :
                     /\ alerts[i].priority = top
                     /\ \A j \in 1..(i - 1) : alerts[j].priority # top
    IN  alerts[first]

\* C6: a notification of /all_alerts is the text of the candidate with the
\* highest priority among the candidates of the call, the first appended if
\* several have it.
C6_TextOfHighestPriority ==
    \A h \in Threads :
        (Polled(h) /\ route[h] = "all_alerts" /\ result[h] # "") =>
            result[h] = Highest(potential_alerts[h]).message

\* tsunami, earthquake and wildfire candidates at once: the tsunami text
C6_Witness ==
    /\ Polled(1)
    /\ route[1] = "all_alerts"
    /\ [i \in 1..Len(potential_alerts[1]) |-> potential_alerts[1][i].type]
         = <<"tsunami", "earthquake", "wildfire">>
    /\ result[1] = potential_alerts[1][1].message

\* the fetch gave up: its last request failed and it made no other
GaveUp(log) == log # <<>> /\ log[Len(log)] # 0

\* C7: when every request to its source fails, a per-source poll makes
\* exactly 5 requests, its adapter returns no record, and it returns the
\* empty string and leaves the store as it found it.
C7_FiveAttemptsThenNoRecord ==
    \A h \in Threads :
        (/\ Polled(h)
         /\ route[h] # "all_alerts"
         /\ \A i \in 1..Len(fetches[h]) : GaveUp(fetches[h][i])) =>
            /\ \A i \in 1..Len(fetches[h]) : Requests(fetches[h][i]) = 5
            /\ message[h] = ""
            /\ event_id[h] = None
            /\ result[h] = ""
            /\ alert_state = store0[h]

\* the wildfire source failed every request
C7_Witness ==
    /\ Polled(1)
    /\ route[1] = "wildfire"
    /\ fetches[1] = << <<0, 2, 0, 4, 0, 8, 0, 16, 0, 32>> >>
    /\ result[1] = ""

\* the sleeps of a fetch, in order
Sleeps(log) == SelectSeq(log, LAMBDA e : e # 0)

\* C8: the k-th failed request of a fetch is followed by a sleep of 2^k
\* seconds, and every sleep is followed by another request.
C8_EverySleepBeforeARequest ==
    \A h \in Threads : \A i \in 1..Len(fetches[h]) :
        LET log == fetches[h][i]
        IN  /\ \A k \in 1..Len(Sleeps(log)) : Sleeps(log)[k] = 2 ^ k
            /\ \A n \in 1..Len(log) :
                  log[n] # 0 => (n < Len(log) /\ log[n + 1] = 0)

\* no request is being served
Quiet == \A h \in Threads : pc[h] \in {"idle", "done"}

\* C9: a poll that returns the empty string leaves the store as it found it;
\* a poll that emits sets the identity and the time of its key to the
\* identity it emitted and to its timestamp; and between requests the
\* identity of a key is None if and only if its time is 0.
C9_StoreWrittenOnlyByEmission ==
    /\ \A h \in Threads :
          Polled(h) =>
              alert_state =
                  IF result[h] = "" THEN store0[h]
                  ELSE [store0[h] EXCEPT ![IdField(route[h])] = event_id[h],
                                         ![TimeField(route[h])] = current_time[h]]
    /\ Quiet =>
          \A r \in CooldownRoutes :
              (alert_state[IdField(r)] = None) <=> (alert_state[TimeField(r)] = 0)

\* C10: a command leaves the store as it found it, and answers the text of
\* its adapter's record or, without a record, its placeholder, which is not
\* empty: nothing of the store enters the answer.
C10_CommandsSkipTheStore ==
    \A h \in Threads :
        (pc[h] = "done" /\ route[h] = "command") =>
            /\ alert_state = store0[h]
            /\ result[h] # ""
            /\ message[h] # "" => result[h] = message[h]
            /\ message[h] = "" => result[h] = Placeholder(cmd[h])

\* a command answered a record after a poll of its source emitted the same
C10_Witness ==
    /\ pc[1] = "done"
    /\ route[1] = "command"
    /\ cmd[1] = "earthquake"
    /\ message[1] # ""
    /\ event_id[1] # None
    /\ store0[1]["last_earthquake_id"] = event_id[1]
    /\ result[1] = message[1]

-----------------------------------------------------------------------------
(* The tsunami path and the independence of the keys. *)

\* C16: a poll of /tsunami queries the global tsunami feed exactly when the
\* regional adapter has yielded no record: it makes two fetches when the
\* regional adapter yields nothing and one when it yields a record.
C16_GlobalFallbackConsulted ==
    \A h \in Threads :
        (Polled(h) /\ route[h] = "tsunami") =>
            Len(fetches[h]) = IF message[h] = "" THEN 2 ELSE 1

\* the fields of the store that belong to other keys than the key of route r
OtherFields(r) == (IdFields \cup TimeFields) \ {IdField(r), TimeField(r)}

\* C18: a poll that has returned has left the fields of every other key as
\* it found them, and whether it emitted is decided by the record, its own
\* timestamp and the two fields of its own key alone.
C18_KeysAreIndependent ==
    \A h \in Threads :
        Polled(h) =>
            /\ \A f \in OtherFields(route[h]) : alert_state[f] = store0[h][f]
            /\ result[h] # "" <=>
                  /\ message[h] # ""
                  /\ event_id[h] # store0[h][IdField(route[h])]
                  /\ current_time[h] - store0[h][TimeField(route[h])] > 300

\* an event emitted through the key of its source is emitted once more, at
\* the same instant, through the key of /all_alerts
C18_Witness ==
    /\ Polled(1)
    /\ route[1] = "all_alerts"
    /\ result[1] # ""
    /\ prev.route \in CooldownRoutes \ {"all_alerts"}
    /\ prev.result = result[1]
    /\ alert_state[IdField(prev.route)] = prev.id
    /\ alert_state[TimeField(prev.route)] > 0
    /\ current_time[1] - alert_state[TimeField(prev.route)] <= 300

-----------------------------------------------------------------------------
(* fetch_data_with_backoff, one iteration of its loop at a time.  The      *)
(* frame holds the argument parser, the local retries, the log of the call *)
(* (0 for a request, n for a sleep of n seconds) and the value returned.   *)

\* the values of the argument parser: the two the function tests, and another
Parsers == {"json", "xml", "text"}

\* fetch_data_with_backoff(url, ..., parser=p): retries = 0
FetchCall ==
    /\ frame.at \in {"none", "returned"}
    /\ used.calls < MaxCalls
    /\ used' = [used EXCEPT !.calls = @ + 1]
    /\ \E p \in Parsers :
          frame' = [at |-> "loop", parser |-> p, retries |-> 0, log |-> <<>>,
                    value |-> None]
    /\ UNCHANGED <<clock, alert_state, pc, route, cmd, current_time, fetches,
                   message, event_id, potential_alerts, result, store0, prev,
                   last_return, feeds, history>>

\* the loop is entered, and the run may follow one more request
Requesting ==
    /\ frame.at = "loop"
    /\ frame.retries < max_retries
    /\ Requests(frame.log) < MaxRequests

\* requests.get and raise_for_status succeed: the body is returned if the
\* parser is 'json' or 'xml'; otherwise neither branch returns and the loop
\* goes round with retries as it was
RequestSucceeds ==
    /\ Requesting
    /\ frame' = IF frame.parser \in {"json", "xml"}
                THEN [frame EXCEPT !.at = "returned", !.log = Append(@, 0),
                                   !.value = Str(frame.parser)]
                ELSE [frame EXCEPT !.log = Append(@, 0)]
    /\ UNCHANGED <<clock, alert_state, pc, route, cmd, current_time, fetches,
                   message, event_id, potential_alerts, result, store0, prev,
                   last_return, used, feeds, history>>

\* the request raises RequestException: retries += 1, sleep 2 ** retries
RequestFails ==
    /\ Requesting
    /\ frame' = [frame EXCEPT !.retries = @ + 1,
                              !.log = @ \o <<0, sleep_time(frame.retries + 1)>>]
    /\ clock' = clock + sleep_time(frame.retries + 1)
    /\ UNCHANGED <<alert_state, pc, route, cmd, current_time, fetches,
                   message, event_id, potential_alerts, result, store0, prev,
                   last_return, used, feeds, history>>

\* the loop condition is false: return None
GiveUp ==
    /\ frame.at = "loop"
    /\ frame.retries >= max_retries
    /\ frame' = [frame EXCEPT !.at = "returned", !.value = None]
    /\ UNCHANGED <<clock, alert_state, pc, route, cmd, current_time, fetches,
                   message, event_id, potential_alerts, result, store0, prev,
                   last_return, used, feeds, history>>

\* one call of fetch_data_with_backoff after the other
NextFetch ==
    \/ FetchCall
    \/ RequestSucceeds
    \/ RequestFails
    \/ GiveUp

SpecFetch == Init /\ [][NextFetch]_vars

\* a request of the log succeeded: no sleep follows it
Succeeded(log) ==
    \E n \in 1..Len(log) : log[n] = 0 /\ (n = Len(log) \/ log[n + 1] = 0)

\* C20: a call of fetch_data_with_backoff makes at most 5 requests whatever
\* its parser argument is, and has returned as soon as one request succeeded.
C20_FetchRunsToCompletion ==
    /\ Requests(frame.log) <= 5
    /\ Succeeded(frame.log) => frame.at = "returned"

\* with the parser 'json' or 'xml' the call makes at most 5 requests and has
\* returned as soon as one request succeeded
C20_KnownParsersComplete ==
    frame.parser \in {"json", "xml"} => C20_FetchRunsToCompletion

-----------------------------------------------------------------------------
(* The routes polled while every feed answers its first request, and what  *)
(* each feed answered is kept in feeds, by the name of the adapter that    *)
(* asked.  The payloads are those above and payloads in which a field the  *)
(* adapter expects is absent or null, or is a text longer than its budget. *)

\* length of the longest description that is not truncated
DescriptionBudget == 150
\* length of the longest instruction that is not truncated
InstructionBudget == 100

\* a text of n characters, at most 400, the decimal digits in turn
Fifty == "12345678901234567890123456789012345678901234567890"
Hundred == Fifty \o Fifty
Chars(n) == SubSeq(Hundred \o Hundred \o Hundred \o Hundred, 1, n)

\* the object a key of a JSON object may lack
Without(d, key) == [k \in DOMAIN d \ {key} |-> d[k]]

\* a JSON object that has no key 'features'
NoFeatures == [type |-> "FeatureCollection"]

UsgsFeature == [id |-> Str("a"), place |-> "p", mag |-> Some(45)]

\* USGS: also a payload without 'features', and a feature whose magnitude
\* is null, or which lacks the magnitude, the place or the id
UsgsFeeds ==
    UsgsPayloads \cup {NoFeatures} \cup
    {[features |-> <<f>>] :
        f \in {[UsgsFeature EXCEPT !.mag = None], Without(UsgsFeature, "mag"),
               Without(UsgsFeature, "place"), Without(UsgsFeature, "id")}}

\* the values of a text field of an alert: null, or a text of one of the
\* lengths around its budget; Absent stands for an alert without the key
Absent == <<"absent", "key">>
Texts(budget) ==
    {None} \cup {Str(Chars(n)) : n \in {0, budget, budget + 1, 2 * budget}}

\* an NWS alert with the description d and the instruction i
NwsDetailed(d, i) ==
    LET a == [id |-> Str("a"), severity |-> Str("Severe"), headline |-> "h",
              description |-> d, instruction |-> i]
        b == IF d = Absent THEN Without(a, "description") ELSE a
    IN  IF i = Absent THEN Without(b, "instruction") ELSE b

\* the values of the severity of an alert: Absent for an alert without the
\* key, null, three keys of severity_order and a text that is no key of it
Severities ==
    {Absent, None, Str("Unknown"), Str("Severe"), Str("Extreme"), Str("Other")}

\* an NWS alert with the id i and the severity sev
NwsRanked(i, sev) ==
    IF sev = Absent THEN Without(NwsAlert(i, None), "severity") ELSE NwsAlert(i, sev)

\* NWS: also a payload without 'features', one alert whose description or
\* instruction is absent, null or a text, and two alerts of any severities
NwsFeeds ==
    NwsPayloads \cup {NoFeatures} \cup
    {[features |-> <<NwsDetailed(d, Absent)>>] : d \in Texts(DescriptionBudget)} \cup
    {[features |-> <<NwsDetailed(Absent, i)>>] : i \in Texts(InstructionBudget)} \cup
    {[features |-> <<NwsDetailed(Str(Chars(2 * DescriptionBudget)),
                                 Str(Chars(2 * InstructionBudget)))>>]} \cup
    {[features |-> <<NwsRanked(Str("a"), s1), NwsRanked(Str("b"), s2)>>] :
        s1 \in Severities, s2 \in Severities}

\* EONET: also a payload without 'events', and an event without title or id
EonetFeeds ==
    EonetPayloads \cup {[title |-> "EONET Events"]} \cup
    {[events |-> <<[id |-> Str("a")]>>], [events |-> <<[title |-> "w"]>>]}

\* GDACS: not XML, no item, or two items of type FL or TS, types that a
\* dedicated adapter and the general adapter select
GdacsFeeds ==
    {p \in GdacsPayloads :
        \/ ~p.wellformed
        \/ Len(p.items) = 0
        \/ Len(p.items) = 2 /\ p.items[1].eventtype \in {Str("FL"), Str("TS")}}

\* what the feed asked by an adapter may answer
Feeds(adapter) ==
    CASE adapter = "earthquake" -> UsgsFeeds
      [] adapter = "tsunami" -> NwsFeeds
      [] adapter = "volcano" -> GvpPayloads
      [] adapter = "wildfire" -> EonetFeeds
      [] OTHER -> GdacsFeeds

\* the feed an adapter call asks
FeedOf(call) == IF call.adapter \in {"gdacs", "general"} THEN "gdacs" ELSE call.adapter

\* an adapter call whose requests succeed at once, the feed answering data
FeedResult(call, data) ==
    IF call.adapter = "general"
    THEN [rec |-> _get_general_severe_weather_alert_message(
                      _get_gdacs_alerts_data(Some(data), None, Str("Orange")),
                      _get_gdacs_alerts_data(Some(data), None, Str("Red"))),
          logs |-> << <<0>>, <<0>> >>]
    ELSE [rec |-> AdapterRecord(call, Some(data)), logs |-> << <<0>> >>]

\* the adapter calls of plan, up to the first that raises, each feed
\* answering answers[feed] to every request of the poll
FeedRun(plan, answers) ==
    LET all == [i \in 1..Len(plan) |-> FeedResult(plan[i], answers[FeedOf(plan[i])])]
        raising == {i \in 1..Len(plan) : all[i].rec.raised}
        last == IF raising = {} THEN Len(plan)
                ELSE CHOOSE i \in raising : \A j \in raising : i <= j
    IN  SubSeq(all, 1, last)

\* the per-source routes and the answer each may get
SourceAnswers ==
    UNION {{[route |-> r, answers |-> [f \in {FeedOf(RoutePlan(r)[1])} |-> data]] :
               data \in Feeds(FeedOf(RoutePlan(r)[1]))} :
           r \in CooldownRoutes \ {"all_alerts"}}

\* a scheduled poll of a per-source route
StartFeed(h) ==
    /\ Free(h)
    /\ \E a \in SourceAnswers :
          /\ Begin(h, a.route, "", FeedRun(RoutePlan(a.route), a.answers))
          /\ feeds' = a.answers


\* one answer of each feed without an event and one with an event, the XML
\* feeds answering what is not XML instead of a feed without an event, and
\* the NWS feed a payload without 'features' in place of an alert
SampleFeeds(feed) ==
    CASE feed = "earthquake" -> {[features |-> <<>>], [features |-> <<UsgsFeature>>]}
      [] feed = "tsunami" -> {[features |-> <<>>], NoFeatures}
      [] feed = "volcano" ->
            {[wellformed |-> FALSE, items |-> <<>>],
             [wellformed |-> TRUE, items |-> <<[title |-> Some(Str("a"))]>>]}
      [] feed = "wildfire" -> {[events |-> <<>>], [events |-> <<[id |-> Str("a"), title |-> "w"]>>]}
      [] feed = "gdacs" ->
            {[wellformed |-> FALSE, items |-> <<>>],
             [wellformed |-> TRUE,
              items |-> <<GdacsItem("FL", "Orange", Some(Str("a")), 1),
                          GdacsItem("FL", "Red", Some(Str("b")), 1)>>]}

FeedNames == {"earthquake", "tsunami", "volcano", "wildfire", "gdacs"}

\* the answers the five feeds may give to a poll of /all_alerts
AllAnswers ==
    {answers \in [FeedNames -> UNION {SampleFeeds(f) : f \in FeedNames}] :
        \A f \in FeedNames : answers[f] \in SampleFeeds(f)}

\* a scheduled poll of /all_alerts
StartFeedAll(h) ==
    /\ Free(h)
    /\ \E answers \in AllAnswers :
          /\ Begin(h, "all_alerts", "", FeedRun(AllAlertsPlan, answers))
          /\ feeds' = answers

\* every cooldown-respecting route, polled while the feeds answer at once
NextFeeds ==
    \/ Tick
    \/ StartFeed(1)
    \/ StartFeedAll(1)
    \/ CheckSource(1)
    \/ CheckAll(1)
    \/ SetId(1)
    \/ SetTime(1)
    \/ Finish(1)
    \/ ServerError(1)

SpecFeeds == Init /\ [][NextFeeds]_vars

\* the feed that route r asks, r being a per-source route
RouteFeed(r) == FeedOf(RoutePlan(r)[1])

\* C11: whatever the feeds answer to their first request, no exception
\* leaves the handler of a cooldown-respecting route: a payload with an
\* absent or null field makes a record with a default or no record.
C11_NoAdapterRaises == \A h \in Threads : pc[h] # "raised"

\* whatever the XML feeds and the wildfire feed answer, no exception leaves
\* the handler of a route that asks only them
C11_XmlAndWildfireNeverRaise ==
    \A h \in Threads :
        pc[h] = "raised" =>
            \/ route[h] \in {"earthquake", "tsunami"}
            \/ route[h] = "all_alerts" /\ Len(fetches[h]) <= 2


\* the per-source routes whose feed is XML
XmlRoutes == {"volcano", "flood", "tropical_cyclone", "drought",
              "severe_weather_general"}

\* the types get_all_alerts gives the candidates made of a feed
TypesOf(feed) ==
    {AllAlertsPlan[i].type : i \in {j \in 1..Len(AllAlertsPlan) :
                                       FeedOf(AllAlertsPlan[j]) = feed}}

\* the poll of thread h was answered something that is not XML by the feed
Malformed(h, feed) ==
    /\ pc[h] # "idle"
    /\ feed \in DOMAIN feeds
    /\ ~feeds[feed].wellformed

\* C12: a poll whose XML feed answers what is not XML raises no exception;
\* a per-source poll then has no record, answers the empty string and leaves
\* the store as it found it; a poll of /all_alerts still asks every other
\* feed, makes no candidate of the malformed feed and leaves the entries of
\* the routes of that feed as it found them.
C12_MalformedXmlIsNoRecord ==
    \A h \in Threads :
        /\ pc[h] = "raised" =>
              \/ route[h] \in {"earthquake", "tsunami"}
              \/ route[h] = "all_alerts" /\ Len(fetches[h]) <= 2
        /\ (Polled(h) /\ route[h] \in XmlRoutes /\ Malformed(h, RouteFeed(route[h]))) =>
              /\ message[h] = ""
              /\ event_id[h] = None
              /\ result[h] = ""
              /\ alert_state = store0[h]
        /\ \A feed \in {"volcano", "gdacs"} :
              (Polled(h) /\ route[h] = "all_alerts" /\ Malformed(h, feed)) =>
                  /\ Len(fetches[h]) = Len(AllAlertsPlan) + 1
                  /\ \A i \in 1..Len(potential_alerts[h]) :
                        potential_alerts[h][i].type \notin TypesOf(feed)
                  /\ \A r \in XmlRoutes :
                        RouteFeed(r) = feed =>
                            /\ alert_state[IdField(r)] = store0[h][IdField(r)]
                            /\ alert_state[TimeField(r)] = store0[h][TimeField(r)]

\* after /volcano has emitted, /all_alerts meets a volcano feed that is not
\* XML and emits the flood alert of the feed it asks afterwards
C12_Witness ==
    /\ Polled(1)
    /\ route[1] = "all_alerts"
    /\ Malformed(1, "volcano")
    /\ ~Malformed(1, "gdacs")
    /\ store0[1]["last_volcano_event"] # None
    /\ result[1] # ""
    /\ alert_state["last_all_alerts_id"] = Str("flood_red-b")


\* the event-type code of the per-source routes of the hazard feed
HazardCode(r) == RoutePlan(r)[1].event_type

\* C13: a poll of /flood, /tropical_cyclone or /drought whose feed holds
\* items of its event type tests the identity of the item that is first by
\* alert level (Red, Orange, Green) and then by severity: with an Orange
\* and a Red flood item, that of the Red one.
C13_HazardAdapterSelectsMaximal ==
    \A h \in Threads :
        (Polled(h) /\ route[h] \in {"flood", "tropical_cyclone", "drought"}) =>
            LET ranked == _get_gdacs_alerts_data(Some(feeds["gdacs"]),
                                                 Str(HazardCode(route[h])), None)
            IN  ranked # <<>> => event_id[h] = ranked[1].id

\* the event types that have an adapter of their own
Dedicated == {Str("EQ"), Str("FL"), Str("TC"), Str("VO"), Str("WF"), Str("DR")}

\* the items of a feed that the general adapter may select, sorted by alert
\* level and then by severity
Qualifying(feed) ==
    SelectSeq(_get_gdacs_alerts_data(Some(feed), None, None),
              LAMBDA a : /\ a.alert_level \in {Str("Orange"), Str("Red")}
                         /\ a.event_type \notin Dedicated)

\* C14: a poll of /severe_weather_general whose feed holds Orange or Red
\* items of a type without a dedicated adapter tests the composite identity
\* of the first of them by alert level and then by severity: with a Red and
\* an Orange item, that of the Red one.
C14_GeneralAdapterSelectsRedFirst ==
    \A h \in Threads :
        (Polled(h) /\ route[h] = "severe_weather_general") =>
            LET ranked == Qualifying(feeds["gdacs"])
            IN  ranked # <<>> =>
                    event_id[h] = Str(PyStr(ranked[1].event_type) \o "-"
                                      \o PyStr(ranked[1].alert_level) \o "-"
                                      \o PyStr(ranked[1].id))

\* an alert of the level the route asks for is selected when the feed holds
\* no Red item of the event type: the per-source routes ask for Orange
C13_SelectsAmongOrange ==
    \A h \in Threads :
        (Polled(h) /\ route[h] \in {"flood", "tropical_cyclone", "drought"}) =>
            LET orange == _get_gdacs_alerts_data(Some(feeds["gdacs"]),
                                                 Str(HazardCode(route[h])),
                                                 Str("Orange"))
            IN  /\ orange # <<>> => event_id[h] = orange[1].id
                /\ orange = <<>> => message[h] = ""


\* text if it has at most budget characters, else its first budget
\* characters and the ellipsis
Ellipsized(text, budget) ==
    IF Len(text) > budget THEN SubSeq(text, 1, budget) \o "..." ELSE text

\* the alert of a poll of /tsunami that made a record of the only alert of
\* its feed
OnlyAlert(h) == feeds["tsunami"].features[1]

OneAlertPolled(h) ==
    /\ Polled(h)
    /\ route[h] = "tsunami"
    /\ message[h] # ""
    /\ Len(feeds["tsunami"].features) = 1

\* C17: the message of a tsunami alert renders a description of at most 150
\* characters unchanged and a longer one as its first 150 characters and
\* the ellipsis, and the instruction likewise with 100 characters.
C17_TruncationKeepsTheBudget ==
    \A h \in Threads :
        OneAlertPolled(h) =>
            LET description ==
                    Get(OnlyAlert(h), "description", DefaultDescription)[1]
                instruction ==
                    Get(OnlyAlert(h), "instruction", DefaultInstruction)[1]
            IN  message[h] =
                    tsunami_message(Get(OnlyAlert(h), "headline", DefaultHeadline),
                                    Ellipsized(description, 150),
                                    Ellipsized(instruction, 100))

\* a description of at most 150 characters and an instruction of at most
\* 100 are rendered unchanged
C17_WithinBudgetUnchanged ==
    \A h \in Threads :
        OneAlertPolled(h) =>
            LET description ==
                    Get(OnlyAlert(h), "description", DefaultDescription)[1]
                instruction ==
                    Get(OnlyAlert(h), "instruction", DefaultInstruction)[1]
            IN  (Len(description) <= 150 /\ Len(instruction) <= 100) =>
                    message[h] =
                        tsunami_message(Get(OnlyAlert(h), "headline", DefaultHeadline),
                                        description, instruction)


\* C17, amended: the message of a tsunami alert renders a description of at
\* most 150 characters unchanged and a longer one as its first 147
\* characters and the ellipsis, 150 characters in all; and the instruction
\* likewise, as its first 97 characters and the ellipsis.
C17_TruncationWithinTheBudget ==
    \A h \in Threads :
        OneAlertPolled(h) =>
            LET description ==
                    Get(OnlyAlert(h), "description", DefaultDescription)[1]
                instruction ==
                    Get(OnlyAlert(h), "instruction", DefaultInstruction)[1]
            IN  message[h] =
                    tsunami_message(Get(OnlyAlert(h), "headline", DefaultHeadline),
                                    IF Len(description) <= 150 THEN description
                                    ELSE SubSeq(description, 1, 147) \o "...",
                                    IF Len(instruction) <= 100 THEN instruction
                                    ELSE SubSeq(instruction, 1, 97) \o "...")

\* an alert whose description has 300 characters and whose instruction has
\* 200 has been rendered
C17_Witness ==
    /\ OneAlertPolled(1)
    /\ "description" \in DOMAIN OnlyAlert(1)
    /\ "instruction" \in DOMAIN OnlyAlert(1)
    /\ Len(OnlyAlert(1).description[1]) = 300
    /\ Len(OnlyAlert(1).instruction[1]) = 200
    /\ result[1] = message[1]

-----------------------------------------------------------------------------
(* /tsunami and /all_alerts polled while the tsunami feed may be down: all *)
(* five requests of a fetch fail.  feeds has no entry for a feed that is   *)
(* down, and history keeps, for every poll answered, its route, whether    *)
(* the tsunami feed was down, the candidate it tested and what it          *)
(* answered.                                                               *)

\* the tsunami alerts E1, without identity, and E2 and E3
TsunamiAlerts ==
    {[features |-> <<a>>] :
        a \in {[NwsAlert(None, Str("Severe")) EXCEPT !.headline = "E1"],
               [NwsAlert(Str("None"), Str("Severe")) EXCEPT !.headline = "E2"],
               [NwsAlert(Str("a"), Str("Severe")) EXCEPT !.headline = "E3"]}}

\* what the feeds answer to a poll: the tsunami feed is down or reports an
\* alert, USGS reports no earthquake or one, the other feeds report nothing
PollAnswers ==
    {[f \in up |->
         CASE f = "tsunami" -> t
           [] f = "earthquake" -> q
           [] f = "wildfire" -> [events |-> <<>>]
           [] OTHER -> [wellformed |-> TRUE, items |-> <<>>]] :
        up \in {FeedNames, FeedNames \ {"tsunami"}},
        t \in TsunamiAlerts,
        q \in {[features |-> <<>>], [features |-> <<UsgsFeature>>]}}

\* what the requests of a fetch meet at a feed: five failures if it is down
FeedResponses(answers, feed) ==
    IF feed \in DOMAIN answers THEN Responses(0, answers[feed])
    ELSE Responses(max_retries, [features |-> <<>>])

\* an adapter call of a poll
PollResult(call, answers) ==
    LET fetched == fetch_data_with_backoff(FeedResponses(answers, FeedOf(call)))
    IN  IF call.adapter = "general"
        THEN [rec |-> _get_general_severe_weather_alert_message(
                          _get_gdacs_alerts_data(fetched.data, None, Str("Orange")),
                          _get_gdacs_alerts_data(fetched.data, None, Str("Red"))),
              logs |-> <<fetched.log, fetched.log>>]
        ELSE [rec |-> AdapterRecord(call, fetched.data), logs |-> <<fetched.log>>]

PollRun(plan, answers) == [i \in 1..Len(plan) |-> PollResult(plan[i], answers)]

\* the answers that matter to route r: those of the feeds it asks
AnswersTo(r) ==
    {[f \in DOMAIN answers \cap {FeedOf(RoutePlan(r)[i]) : i \in 1..Len(RoutePlan(r))}
         |-> answers[f]] : answers \in PollAnswers}

\* a scheduled poll of /tsunami or of /all_alerts
StartPoll(h) ==
    /\ pc[h] = "idle"
    /\ used.calls < MaxPolls
    /\ \E r \in {"tsunami", "all_alerts"} :
          \E answers \in AnswersTo(r) :
              /\ Begin(h, r, "", PollRun(RoutePlan(r), answers))
              /\ feeds' = answers

\* the cooldown window passes between two polls
Pause ==
    /\ \A h \in Threads : pc[h] = "idle"
    /\ used.calls > 0
    /\ used.ticks < MaxPauses
    /\ clock' = clock + COOLDOWN_SECONDS + 1
    /\ used' = [used EXCEPT !.ticks = @ + 1]
    /\ UNCHANGED <<alert_state, pc, route, cmd, current_time, fetches, message,
                   event_id, potential_alerts, result, store0, prev,
                   last_return, feeds, frame, history>>

\* the candidate a poll that has returned tested: its type (the route, for
\* a per-source route) and its identity, or nothing
Tested(h) ==
    IF route[h] = "all_alerts"
    THEN IF potential_alerts[h] = <<>> THEN <<>>
         ELSE LET top_alert == SortedByPriority(potential_alerts[h])[1]
              IN  <<top_alert.type, top_alert.id>>
    ELSE IF message[h] = "" THEN <<>> ELSE <<route[h], event_id[h]>>

\* the response has been sent, and the poll is entered in history
FinishPoll(h) ==
    /\ Release(h)
    /\ history' = Append(history, [route |-> route[h],
                                   down |-> "tsunami" \notin DOMAIN feeds,
                                   tested |-> Tested(h),
                                   result |-> result[h]])

NextPolls ==
    \/ Pause
    \/ StartPoll(1)
    \/ CheckSource(1)
    \/ CheckAll(1)
    \/ SetId(1)
    \/ SetTime(1)
    \/ FinishPoll(1)

SpecPolls == Init /\ [][NextPolls]_vars


\* the polls of route r that have been answered with a notification
Notified(r) == {i \in 1..Len(history) : history[i].route = r /\ history[i].result # ""}

\* the combined identity of a tested candidate of /all_alerts
CombinedOf(tested) == combined_alert_id([type |-> tested[1], id |-> tested[2]])

\* C15: /all_alerts tests and stores the type of its top candidate joined to
\* its identity, and two candidates that differ in type or in identity never
\* have the same combined identity.
C15_CombinedIdInjective ==
    \A h \in Threads :
        (Polled(h) /\ route[h] = "all_alerts" /\ Tested(h) # <<>>) =>
            /\ event_id[h] = CombinedOf(Tested(h))
            /\ \A i \in Notified("all_alerts") :
                  history[i].tested # Tested(h) =>
                      CombinedOf(history[i].tested) # event_id[h]

\* two candidates that have an identity and differ in type or in identity
\* never have the same combined identity
C15_InjectiveOnIdentities ==
    \A h \in Threads :
        (Polled(h) /\ route[h] = "all_alerts" /\ Tested(h) # <<>>) =>
            /\ event_id[h] = CombinedOf(Tested(h))
            /\ \A i \in Notified("all_alerts") :
                  (/\ history[i].tested # Tested(h)
                   /\ history[i].tested[2] # None
                   /\ Tested(h)[2] # None) =>
                      CombinedOf(history[i].tested) # event_id[h]

\* the tsunami feed was down at a poll of route r later than poll i
DownSince(r, i) ==
    \E j \in (i + 1)..Len(history) : history[j].route = r /\ history[j].down

\* C19: an alert of the tsunami feed that a route has notified is not
\* notified by that route once more after polls at which the feed was
\* down, when the feed comes back with the same alert.
C19_OutageIsNoNewInformation ==
    \A h \in Threads :
        (Polled(h) /\ result[h] # "") =>
            \A i \in Notified(route[h]) :
                (/\ history[i].tested = Tested(h)
                 /\ history[i].tested[1] \in {"tsunami"}
                 /\ history[i].result = result[h]) => ~DownSince(route[h], i)

\* /tsunami does not notify an alert once more after its feed was down
C19_PerSourceKeyKeepsTheAlert ==
    \A h \in Threads :
        (Polled(h) /\ route[h] = "tsunami" /\ result[h] # "") =>
            \A i \in Notified("tsunami") :
                history[i].tested = Tested(h) => ~DownSince("tsunami", i)

-----------------------------------------------------------------------------
(* The alert the tsunami adapter selects. *)

\* the alerts of the feed of a poll of /tsunami that made a record
Alerts(h) == feeds["tsunami"].features

RankedPolled(h) ==
    /\ Polled(h)
    /\ route[h] = "tsunami"
    /\ message[h] # ""

\* the tier of an alert, the severity of an alert without the key having
\* the tier missing, and a severity that is none of the five names, null
\* included, the tier 0
Tier(alert, missing) ==
    IF "severity" \notin DOMAIN alert THEN missing
    ELSE IF alert.severity = Str("Extreme") THEN 5
    ELSE IF alert.severity = Str("Severe") THEN 4
    ELSE IF alert.severity = Str("Moderate") THEN 3
    ELSE IF alert.severity = Str("Minor") THEN 2
    ELSE IF alert.severity = Str("Unknown") THEN 1
    ELSE 0

\* the first alert of the feed among those of the highest tier
FirstOfHighest(alerts, missing) ==
    CHOOSE i \in 1..Len(alerts) :
        /\ \A j \in 1..Len(alerts) : Tier(alerts[j], missing) <= Tier(alerts[i], missing)
        /\ \A j \in 1..(i - 1) : Tier(alerts[j], missing) < Tier(alerts[i], missing)

\* C21: a poll of /tsunami tests the identity of the first alert of the feed
\* among those of the highest severity tier, Extreme, Severe, Moderate,
\* Minor, Unknown in this order, every other severity and a missing one
\* being ranked lowest, below Unknown.
C21_HighestTierFirstInFeed ==
    \A h \in Threads :
        RankedPolled(h) =>
            event_id[h] = Get(Alerts(h)[FirstOfHighest(Alerts(h), 0)], "id", None)

\* C21, amended: a poll of /tsunami tests the identity of the first alert of
\* the feed among those of the highest severity tier, Extreme, Severe,
\* Moderate, Minor, Unknown in this order, a missing severity being ranked
\* as Unknown and every other value, null included, below Unknown.
C21_MissingSeverityIsUnknown ==
    \A h \in Threads :
        RankedPolled(h) =>
            event_id[h] = Get(Alerts(h)[FirstOfHighest(Alerts(h), 1)], "id", None)

\* after /tsunami has emitted the alert b, it meets a feed of two alerts of
\* one tier, a before b, and emits a
C21_Witness ==
    /\ RankedPolled(1)
    /\ Len(Alerts(1)) = 2
    /\ Alerts(1)[1].id # Alerts(1)[2].id
    /\ result[1] # ""
    /\ Tier(Alerts(1)[1], 1) = Tier(Alerts(1)[2], 1)
    /\ event_id[1] = Alerts(1)[1].id
    /\ prev.route = "tsunami"
    /\ prev.result # ""
    /\ prev.id = Str("b")


\* the tier of an alert when Unknown, a missing severity and every other
\* value share the lowest tier
SharedTier(alert) == IF Tier(alert, 0) <= 1 THEN 0 ELSE Tier(alert, 0)

\* a poll of /tsunami tests the identity of the first alert of the highest
\* tier when Unknown, a missing severity and every other value share the
\* lowest tier
C21_LowestTierShared ==
    \A h \in Threads :
        RankedPolled(h) =>
            LET alerts == Alerts(h)
                first == CHOOSE i \in 1..Len(alerts) :
                    /\ \A j \in 1..Len(alerts) :
                          SharedTier(alerts[j]) <= SharedTier(alerts[i])
                    /\ \A j \in 1..(i - 1) :
                          SharedTier(alerts[j]) < SharedTier(alerts[i])
            IN  event_id[h] = Get(alerts[first], "id", None)

-----------------------------------------------------------------------------
(* What a key remembers of its emissions. *)

\* the identity route r emitted at the poll history[i]
IdentityOf(i) ==
    IF history[i].route = "all_alerts" THEN CombinedOf(history[i].tested)
    ELSE history[i].tested[2]

\* the identity of the latest emission of route r, None if it has emitted
\* nothing
LastIdentity(r) ==
    IF Notified(r) = {} THEN None
    ELSE IdentityOf(CHOOSE i \in Notified(r) : \A j \in Notified(r) : j <= i)

\* C22: the entry of a key holds the identity of the latest emission of the
\* key and nothing of the earlier ones: a poll whose window is over emits
\* its record exactly when its identity differs from that of the latest
\* emission, be it an identity the key has emitted before.
C22_OnlyTheLatestIdentity ==
    \A h \in Threads :
        Polled(h) =>
            /\ store0[h][IdField(route[h])] = LastIdentity(route[h])
            /\ (/\ message[h] # ""
                /\ current_time[h] - store0[h][TimeField(route[h])] > COOLDOWN_SECONDS)
               => (result[h] # "" <=> event_id[h] # LastIdentity(route[h]))

\* a route emitted A, then B, and now, a window later, emits A once more
C22_Witness ==
    /\ Polled(1)
    /\ result[1] # ""
    /\ Len(history) = 2
    /\ history[1].route = route[1]
    /\ history[2].route = route[1]
    /\ history[1].result = result[1]
    /\ history[1].tested = Tested(1)
    /\ history[2].result # ""
    /\ history[2].tested # Tested(1)
    /\ history[2].tested[1] = Tested(1)[1]
    /\ history[2].tested[2] # None
    /\ Tested(1)[2] # None
    /\ route[1] = "tsunami"

\* the same on the aggregate path: its top candidate alternates between two
\* alerts of one source
C22_AggregateAlternates ==
    /\ Polled(1)
    /\ result[1] # ""
    /\ route[1] = "all_alerts"
    /\ Len(history) = 2
    /\ history[1].route = "all_alerts"
    /\ history[2].route = "all_alerts"
    /\ history[1].result = result[1]
    /\ history[1].tested = Tested(1)
    /\ history[2].result # ""
    /\ history[2].tested # Tested(1)

=============================================================================
